---- MODULE Spec2Model ----
(***************************************************************************)
(* Model of the Notion write tool (langchain_notion_tools/tools/write.py): *)
(* request validation, block sanitization, the create / update            *)
(* orchestration of client adapter calls, error wrapping and summaries,   *)
(* for the synchronous entry point _run and the asynchronous one _arun,   *)
(* and of the block utilities it relies on (langchain_notion_tools/        *)
(* blocks.py): sanitize_blocks and the text-to-block converter from_text.  *)
(*                                                                         *)
(* Python values are modelled as follows.                                  *)
(*   - an optional value is a sequence of length 0 (None) or 1 (the value) *)
(*   - a dict with string keys is a function whose domain is the key set   *)
(*   - a str that is formatted (summary, error message) is the sequence of *)
(*     the pieces its f-string concatenates                                *)
(***************************************************************************)
EXTENDS Integers, Sequences, FiniteSets, TLC

VARIABLES
    request,            \* keyword arguments passed to _run / _arun
    notion_client,      \* TRUE iff the notion_client package is importable
    path,               \* "sync" (_run) or "async" (_arun): the running entry point
    pc,                 \* "start", "await" (adapter call in flight), "done"
    payload,            \* the coerced NotionWriteInput, None before coercion
    calls,              \* adapter calls issued by the running invocation, in order
    outcome,            \* what the running invocation returned or raised
    script,             \* adapter behaviours observed by the first invocation
    first,              \* calls and outcome of the finished _run invocation
    text,               \* the lines of the text handed to from_text
    document            \* the blocks from_text returned, None before the call

tool_vars == <<request, notion_client, path, pc, payload, calls, outcome, script, first>>
vars == <<request, notion_client, path, pc, payload, calls, outcome, script, first,
          text, document>>

-----------------------------------------------------------------------------
(* Optional values and small helpers                                       *)

None == <<>>
Some(v) == <<v>>
IsNone(o) == Len(o) = 0
Val(o) == o[1]

\* Python truthiness of an optional str, of an optional list, of an optional dict
TruthyStr(o) == ~IsNone(o) /\ Val(o) # ""
TruthyList(o) == ~IsNone(o) /\ Len(Val(o)) > 0
TruthyDict(o) == ~IsNone(o) /\ DOMAIN Val(o) # {}

Last(s) == s[Len(s)]

RECURSIVE Join(_, _)
\* sep.join(items), as the sequence of joined pieces
Join(items, sep) ==
    IF Len(items) = 0 THEN <<>>
    ELSE IF Len(items) = 1 THEN <<items[1]>>
    ELSE <<items[1], sep>> \o Join(Tail(items), sep)

-----------------------------------------------------------------------------
(* Bounds of the explored inputs                                           *)

\* longest valid block list supplied by a caller
MaxBlocksLen == 2

-----------------------------------------------------------------------------
(* Blocks and the sanitizer (langchain_notion_tools/blocks.py)             *)

MAX_BLOCKS == 50
MAX_TOTAL_TEXT_LENGTH == 2000

ALLOWED_BLOCK_TYPES ==
    {"paragraph", "heading_1", "heading_2", "heading_3", "bulleted_list_item",
     "numbered_list_item", "to_do", "toggle", "callout", "quote", "code"}

\* a str built as chars * times
Text(chars, times) == [chars |-> chars, times |-> times]
TextLen(t) == Len(t.chars) * t.times

Span(t) == [type |-> "text", text |-> [content |-> t]]
LinkedSpan(t, url) == [type |-> "text", text |-> [content |-> t, link |-> url]]

paragraph(t) == [object |-> "block", type |-> "paragraph", rich_text |-> <<Span(t)>>]
quote(t) == [object |-> "block", type |-> "quote", rich_text |-> <<Span(t)>>]
toggle(t, children) ==
    [object |-> "block", type |-> "toggle", rich_text |-> <<Span(t)>>, children |-> children]
to_do(t, checked) ==
    [object |-> "block", type |-> "to_do", rich_text |-> <<Span(t)>>, checked |-> checked]
code(t, language) ==
    [object |-> "block", type |-> "code", rich_text |-> <<Span(t)>>, language |-> language]

HasKey(d, k) == k \in DOMAIN d

RECURSIVE SpansLength(_)
SpansLength(spans) ==
    IF Len(spans) = 0 THEN 0
    ELSE TextLen(spans[1].text.content) + SpansLength(Tail(spans))

RECURSIVE TotalTextLength_without_children(_)
\* variant: the text of children is not counted
TotalTextLength_without_children(blocks) ==
    IF Len(blocks) = 0 THEN 0
    ELSE (IF HasKey(blocks[1], "rich_text") THEN SpansLength(blocks[1].rich_text) ELSE 0)
         + TotalTextLength_without_children(Tail(blocks))

RECURSIVE TotalTextLength(_)
\* the shared running total of rich-text content over a block list and its children
TotalTextLength(blocks) ==
    IF Len(blocks) = 0 THEN 0
    ELSE LET b == blocks[1] IN
         (IF HasKey(b, "rich_text") THEN SpansLength(b.rich_text) ELSE 0)
         + (IF HasKey(b, "children") THEN TotalTextLength(b.children) ELSE 0)
         + TotalTextLength(Tail(blocks))

\* variant: only the types of the top-level blocks are looked at
AllTypesAllowed_top_level(blocks) ==
    \A i \in 1..Len(blocks) : blocks[i].type \in ALLOWED_BLOCK_TYPES

RECURSIVE AllTypesAllowed(_)
AllTypesAllowed(blocks) ==
    \A i \in 1..Len(blocks) :
        /\ blocks[i].type \in ALLOWED_BLOCK_TYPES
        /\ (HasKey(blocks[i], "children") => AllTypesAllowed(blocks[i].children))

StripSpan(s) == [type |-> s.type, text |-> [content |-> s.text.content]]

RECURSIVE StripLinks(_)
\* the blocks with every link removed from the text of a span, children included
StripLinks(blocks) ==
    [i \in 1..Len(blocks) |->
        LET b == blocks[i] IN
        [k \in DOMAIN b |->
            IF k = "rich_text" THEN [j \in 1..Len(b.rich_text) |-> StripSpan(b.rich_text[j])]
            ELSE IF k = "children" THEN StripLinks(b.children)
            ELSE b[k]]]

\* sanitize_blocks: the sanitized list, or a NotionConfigurationError
sanitize_blocks(blocks) ==
    IF Len(blocks) > MAX_BLOCKS
      THEN [ok |-> FALSE, message |-> <<"too many blocks">>]
    ELSE IF ~AllTypesAllowed(blocks)
      THEN [ok |-> FALSE, message |-> <<"block type not allowed">>]
    ELSE IF TotalTextLength(blocks) > MAX_TOTAL_TEXT_LENGTH
      THEN [ok |-> FALSE, message |-> <<"text too long">>]
    ELSE [ok |-> TRUE, blocks |-> StripLinks(blocks)]

-----------------------------------------------------------------------------
(* The text-to-block converter (langchain_notion_tools/blocks.py)          *)

\* longest text handed to from_text, in lines
MaxLines == 3

heading_1(t) == [object |-> "block", type |-> "heading_1", rich_text |-> <<Span(t)>>]
heading_2(t) == [object |-> "block", type |-> "heading_2", rich_text |-> <<Span(t)>>]
heading_3(t) == [object |-> "block", type |-> "heading_3", rich_text |-> <<Span(t)>>]
bulleted_list_item(t) ==
    [object |-> "block", type |-> "bulleted_list_item", rich_text |-> <<Span(t)>>]
numbered_list_item(t) ==
    [object |-> "block", type |-> "numbered_list_item", rich_text |-> <<Span(t)>>]

\* str.startswith and the part of a str from (0-based) position n on
startswith(s, prefix) == Len(s) >= Len(prefix) /\ SubSeq(s, 1, Len(prefix)) = prefix
from_position(s, n) == SubSeq(s, n + 1, Len(s))

RECURSIVE rstrip(_)
\* str.rstrip: trailing whitespace removed
rstrip(s) ==
    IF Len(s) > 0 /\ SubSeq(s, Len(s), Len(s)) \in {" ", "\t"}
    THEN rstrip(SubSeq(s, 1, Len(s) - 1))
    ELSE s

RECURSIVE run_length(_, _)
\* the length of the longest prefix of s made of characters of the given set
run_length(s, chars) ==
    IF Len(s) > 0 /\ SubSeq(s, 1, 1) \in chars
    THEN 1 + run_length(from_position(s, 1), chars)
    ELSE 0

Digits == {"0", "1", "2", "3", "4", "5", "6", "7", "8", "9"}

\* the marker that opens and closes a fenced block: three backquotes in the text, a
\* character a string of this module cannot hold, written as three tildes here
Fence == "~~~"

RECURSIVE join_lines(_)
\* "\n".join(lines)
join_lines(lines) ==
    IF Len(lines) = 0 THEN ""
    ELSE IF Len(lines) = 1 THEN lines[1]
    ELSE lines[1] \o "\n" \o join_lines(Tail(lines))

\* variant: a run of four or more '#' is read as a heading of level 3
heading_level_any_depth(line) ==
    LET hashes == run_length(line, {"#"}) IN
    IF hashes >= 1 /\ startswith(from_position(line, hashes), " ")
    THEN (IF hashes > 3 THEN 3 ELSE hashes) ELSE 0

\* the level of the heading the line is, 0 if it is none: 1 to 3 '#', then a space
heading_level(line) ==
    LET hashes == run_length(line, {"#"}) IN
    IF hashes \in 1..3 /\ startswith(from_position(line, hashes), " ") THEN hashes ELSE 0

\* the block of a line outside a fence, None for a blank line
line_block(line) ==
    LET level == heading_level(line)
        digits == run_length(line, Digits)
    IN IF level = 1 THEN Some(heading_1(from_position(line, 2)))
       ELSE IF level = 2 THEN Some(heading_2(from_position(line, 3)))
       ELSE IF level = 3 THEN Some(heading_3(from_position(line, 4)))
       ELSE IF startswith(line, "- ") \/ startswith(line, "* ")
         THEN Some(bulleted_list_item(from_position(line, 2)))
       ELSE IF digits >= 1 /\ startswith(from_position(line, digits), ". ")
         THEN Some(numbered_list_item(from_position(line, digits + 2)))
       ELSE IF startswith(line, "> ") THEN Some(quote(from_position(line, 2)))
       ELSE IF line = "" THEN None
       ELSE Some(paragraph(line))

\* variant: a fence left open at the end of the text is forgotten
end_of_text_drops_open_fence(in_code, code_language, code_lines, blocks) == blocks

\* the end of the text: a fence still open is emitted as the last block
end_of_text(in_code, code_language, code_lines, blocks) ==
    IF in_code THEN Append(blocks, code(join_lines(code_lines), code_language)) ELSE blocks

RECURSIVE convert(_, _, _, _, _)
\* the loop of from_text over the lines that are left
convert(lines, in_code, code_language, code_lines, blocks) ==
    IF Len(lines) = 0 THEN end_of_text(in_code, code_language, code_lines, blocks)
    ELSE LET raw == Head(lines)
             line == rstrip(raw)
         IN IF startswith(line, Fence)
            THEN IF in_code
                 THEN convert(Tail(lines), FALSE, "", <<>>,
                              Append(blocks, code(join_lines(code_lines), code_language)))
                 ELSE convert(Tail(lines), TRUE, from_position(line, 3), <<>>, blocks)
            ELSE IF in_code
            THEN convert(Tail(lines), TRUE, code_language, Append(code_lines, raw), blocks)
            ELSE convert(Tail(lines), FALSE, "", <<>>,
                         IF IsNone(line_block(line)) THEN blocks
                         ELSE Append(blocks, Val(line_block(line))))

\* from_text, on text.splitlines()
from_text(lines) == convert(lines, FALSE, "", <<>>, <<>>)

\* lines a text is made of
LineSamples ==
    { "# Title", "## Two", "### Three", "#### Four", "#tag", "- Item", "* Star",
      "12. Numbered", "7.5 apples", "> Quoted", "", "  ", "Plain text", Fence \o "python", Fence }

\* the text of the golden test
GoldenText ==
    << "# Title", "", "- Item one", "- Item two", "", Fence \o "python",
       "print('Hello')", Fence >>

RECURSIVE Texts(_)
\* the texts of at most n lines
Texts(n) ==
    IF n = 0 THEN { <<>> }
    ELSE Texts(n - 1) \cup { Append(t, l) : t \in { u \in Texts(n - 1) : Len(u) = n - 1 },
                                             l \in LineSamples }

TextInputs == Texts(MaxLines) \cup { GoldenText }

-----------------------------------------------------------------------------
(* Request inputs                                                          *)

\* property values are opaque to the tool
PropValue(v) == [value |-> v]

\* the property the convenience title is turned into (write.py 354-361)
TitleProperty(title) == [title |-> <<[type |-> "text", text |-> [content |-> title]]>>]

\* sorted() over the property keys in use: Python orders str by code point
KeyOrder == <<"Name", "Status", "Tags", "title">>
sorted(keys) == SelectSeq(KeyOrder, LAMBDA k : k \in keys)

EmptyDict == <<>>

PropertiesInputs ==
    { None,
      Some(EmptyDict),
      Some("Status" :> PropValue("Done")),
      Some("title" :> PropValue("Caller title")),
      Some(("Name" :> PropValue("Row")) @@ ("Status" :> PropValue("Done"))
           @@ ("Tags" :> PropValue("x")) @@ ("title" :> PropValue("Caller title"))) }

TitleInputs == { None, Some(""), Some("Plan") }

ParentInputs ==
    { None } \cup
    { Some([page_id |-> p, database_id |-> d]) :
        p \in {None, Some("parent-1")}, d \in {None, Some("db-1")} }

UpdateInputs ==
    { None } \cup
    { Some([page_id |-> "page-42", mode |-> m]) : m \in {"append", "replace", "merge"} }

\* valid blocks a caller may supply, in this order
SampleBlocks ==
    << [object |-> "block", type |-> "paragraph",
        rich_text |-> <<LinkedSpan(Text("Hello", 1), "https://example.com")>>],
       toggle(Text("More", 1), <<quote(Text("Nested", 1))>>),
       paragraph(Text("a", 100)) >>

\* a code block whose span carries a link, the text of a span being replaced
LinkedCode ==
    [object |-> "block", type |-> "code", language |-> "python",
     rich_text |-> <<LinkedSpan(Text("x", 1), "https://example.com")>>]

\* block lists at the limits of the sanitizer, and blocks with extra fields
LimitBlockLists ==
    { [i \in 1..MAX_BLOCKS |-> paragraph(Text("a", 1))],
      <<toggle(Text("a", 1000), <<toggle(Text("b", 500), <<paragraph(Text("c", 500))>>)>>)>>,
      <<LinkedCode, to_do(Text("Task", 1), TRUE), toggle(Text("More", 1), <<LinkedCode>>)>> }

ValidBlockLists == { SubSeq(SampleBlocks, 1, n) : n \in 0..MaxBlocksLen } \cup LimitBlockLists

InvalidBlockLists ==
    { <<[type |-> "unsupported"]>>,
      <<toggle(Text("More", 1), <<[type |-> "unsupported"]>>)>>,
      <<paragraph(Text("Hello", 1)),
        toggle(Text("a", 1), <<toggle(Text("b", 1), <<[type |-> "embed"]>>)>>)>>,
      [i \in 1..(MAX_BLOCKS + 1) |-> paragraph(Text("a", 100))],
      [i \in 1..(MAX_BLOCKS + 1) |-> paragraph(Text("7", 1))],
      <<paragraph(Text("a", MAX_TOTAL_TEXT_LENGTH + 1))>>,
      <<paragraph(Text("a", 1001)), toggle(Text("b", 500), <<quote(Text("c", 500))>>)>>,
      <<toggle(Text("a", MAX_TOTAL_TEXT_LENGTH), <<paragraph(Text("a", 1))>>)>> }

BlocksInputs == { None } \cup { Some(b) : b \in ValidBlockLists \cup InvalidBlockLists }

Requests ==
    [title : TitleInputs, parent : ParentInputs, blocks : BlocksInputs,
     update : UpdateInputs, properties : PropertiesInputs, is_dry_run : BOOLEAN]

-----------------------------------------------------------------------------
(* Pydantic models and their validators                                    *)

\* variant: a parent is constructed whatever ids it carries
NotionPageParent_valid_unchecked(parent) == TRUE

\* NotionPageParent._validate_choice: exactly one truthy id
NotionPageParent_valid(parent) ==
    Cardinality({f \in {"page_id", "database_id"} : TruthyStr(parent[f])}) = 1

\* NotionUpdateInstruction._validate_mode
NotionUpdateInstruction_valid(update) == update.mode \in {"append", "replace"}

\* variant: parent together with update is let through
NotionWriteInput_valid_allows_both(p) ==
    IF IsNone(p.update) /\ IsNone(p.parent) THEN FALSE
    ELSE IF ~IsNone(p.update)
      THEN ~(IsNone(p.blocks) /\ IsNone(p.properties))
    ELSE IF TruthyStr(Val(p.parent).database_id) /\ IsNone(p.properties) THEN FALSE
    ELSE IF TruthyStr(Val(p.parent).page_id) /\ ~TruthyStr(p.title) /\ IsNone(p.properties)
      THEN FALSE
    ELSE TRUE

\* variant: the shape of the request is not looked at beyond parent / update
NotionWriteInput_valid_shape_unchecked(p) ==
    IF IsNone(p.update) /\ IsNone(p.parent) THEN FALSE
    ELSE IF ~IsNone(p.update) /\ ~IsNone(p.parent) THEN FALSE
    ELSE TRUE

\* NotionWriteInput._validate_operation: TRUE iff no ValueError is raised
NotionWriteInput_valid(p) ==
    IF IsNone(p.update) /\ IsNone(p.parent) THEN FALSE
    ELSE IF ~IsNone(p.update) /\ ~IsNone(p.parent) THEN FALSE
    ELSE IF ~IsNone(p.update)
      THEN ~(IsNone(p.blocks) /\ IsNone(p.properties))
    ELSE IF TruthyStr(Val(p.parent).database_id) /\ IsNone(p.properties) THEN FALSE
    ELSE IF TruthyStr(Val(p.parent).page_id) /\ ~TruthyStr(p.title) /\ IsNone(p.properties)
      THEN FALSE
    ELSE TRUE

\* NotionWriteTool.__coerce_payload: the NotionWriteInput, or a pydantic ValidationError
_coerce_payload(args) ==
    IF ~IsNone(args.parent) /\ ~NotionPageParent_valid(Val(args.parent))
      THEN [ok |-> FALSE]
    ELSE IF ~IsNone(args.update) /\ ~NotionUpdateInstruction_valid(Val(args.update))
      THEN [ok |-> FALSE]
    ELSE IF ~NotionWriteInput_valid(args)
      THEN [ok |-> FALSE]
    ELSE [ok |-> TRUE, payload |-> args]

-----------------------------------------------------------------------------
(* Exceptions                                                              *)

\* an exception object: its class, str(exc) and the code / status attributes
Exc(cls, message, error_code, error_status) ==
    [cls |-> cls, message |-> message, code |-> error_code, status |-> error_status]

ValidationError == Exc("ValidationError", <<"validation error">>, None, None)

NotionConfigurationError(message) == Exc("NotionConfigurationError", message, None, None)

ToolExecutionError(message) == Exc("ToolExecutionError", message, None, None)

\* what a client adapter call may raise; APIResponseError is notion_client's class
AdapterErrors ==
    { Exc("RuntimeError", <<"fail">>, None, None),
      Exc("BoomError", <<"boom">>, Some("invalid_request"), Some("400")),
      Exc("HTTPError", <<"timeout">>, None, Some("504")),
      Exc("ToolExecutionError", <<"inner tool failure">>, None, None),
      Exc("NotionConfigurationError", <<"misconfigured">>, None, None) }
    \cup (IF notion_client
          THEN { Exc("APIResponseError", <<"not found">>, Some("object_not_found"), Some("404")),
                 Exc("APIResponseError", <<"bad">>, Some("validation_error"), None) }
          ELSE {})

\* isinstance(error, APIResponseError); without notion_client the name is bound to Exception
IsAPIResponseError(error) ==
    IF notion_client THEN error.cls = "APIResponseError" ELSE TRUE

\* variant: the original message is left out
_raise_tool_error_drops_message(operation, error) ==
    IF error.cls = "ToolExecutionError" THEN error
    ELSE IF error.cls = "NotionConfigurationError" THEN error
    ELSE ToolExecutionError(<<operation, " failed">>)

\* _raise_tool_error: the exception that leaves the function
_raise_tool_error(operation, error) ==
    IF error.cls = "ToolExecutionError" THEN error
    ELSE IF error.cls = "NotionConfigurationError" THEN error
    ELSE LET base == <<operation, " failed: ">> \o error.message
             code_part == IF IsAPIResponseError(error) /\ TruthyStr(error.code)
                          THEN <<" (code ", Val(error.code), ")">> ELSE <<>>
             status_part == IF IsAPIResponseError(error) /\ TruthyStr(error.status)
                            THEN <<" [status ", Val(error.status), "]">> ELSE <<>>
         IN ToolExecutionError(base \o code_part \o status_part)

-----------------------------------------------------------------------------
(* Payload construction and summaries                                      *)

\* a formatted str without its empty pieces
Str(pieces) == SelectSeq(pieces, LAMBDA x : x # "")

Min(a, b) == IF a < b THEN a ELSE b

\* variant: the preview is not cut after three keys
_format_property_keys_uncut(keys) ==
    IF Len(keys) = 0 THEN <<"no properties">>
    ELSE <<"properties: ">> \o Join(keys, ", ")
         \o (IF Len(keys) > 3 THEN <<", ...">> ELSE <<>>)

_format_property_keys(keys) ==
    IF Len(keys) = 0 THEN <<"no properties">>
    ELSE <<"properties: ">> \o Join(SubSeq(keys, 1, Min(3, Len(keys))), ", ")
         \o (IF Len(keys) > 3 THEN <<", ...">> ELSE <<>>)

\* NotionPageParent.to_api_payload
to_api_payload(parent) ==
    IF TruthyStr(parent.page_id)
      THEN [type |-> "page_id", page_id |-> Val(parent.page_id)]
    ELSE IF TruthyStr(parent.database_id)
      THEN [type |-> "database_id", database_id |-> Val(parent.database_id)]
    ELSE [raised |-> NotionConfigurationError(<<"Parent reference is not configured correctly.">>)]

\* NotionPageParent.describe
describe(parent) ==
    IF TruthyStr(parent.page_id) THEN <<"page ", Val(parent.page_id)>>
    ELSE IF TruthyStr(parent.database_id) THEN <<"database ", Val(parent.database_id)>>
    ELSE <<"unknown parent">>

\* variant: the blocks are passed on as the caller supplied them
_sanitize_blocks_passes_on(blocks) ==
    IF ~TruthyList(blocks) THEN [ok |-> TRUE, blocks |-> <<>>]
    ELSE IF sanitize_blocks(Val(blocks)).ok THEN [ok |-> TRUE, blocks |-> Val(blocks)]
    ELSE sanitize_blocks(Val(blocks))

\* variant: a list that is too long is cut to MAX_BLOCKS blocks before it is sanitized
_sanitize_blocks_cuts(blocks) ==
    IF ~TruthyList(blocks) THEN [ok |-> TRUE, blocks |-> <<>>]
    ELSE IF Len(Val(blocks)) > MAX_BLOCKS THEN sanitize_blocks(SubSeq(Val(blocks), 1, MAX_BLOCKS))
    ELSE sanitize_blocks(Val(blocks))

\* NotionWriteTool._sanitize_blocks
_sanitize_blocks(blocks) ==
    IF ~TruthyList(blocks) THEN [ok |-> TRUE, blocks |-> <<>>]
    ELSE sanitize_blocks(Val(blocks))

\* variant: the convenience title is set under a database parent too
create_properties_any_parent(p) ==
    LET properties == IF TruthyDict(p.properties) THEN Val(p.properties) ELSE EmptyDict
    IN IF TruthyStr(p.title) /\ "title" \notin DOMAIN properties
       THEN properties @@ ("title" :> TitleProperty(Val(p.title)))
       ELSE properties

\* variant: the convenience title overwrites a title property of the caller
create_properties_overwrites(p) ==
    LET properties == IF TruthyDict(p.properties) THEN Val(p.properties) ELSE EmptyDict
    IN IF TruthyStr(p.title) /\ TruthyStr(Val(p.parent).page_id)
       THEN ("title" :> TitleProperty(Val(p.title))) @@ properties
       ELSE properties

\* properties.setdefault("title", ...) of _build_create_payload
create_properties(p) ==
    LET properties == IF TruthyDict(p.properties) THEN Val(p.properties) ELSE EmptyDict
    IN IF TruthyStr(p.title) /\ TruthyStr(Val(p.parent).page_id) /\ "title" \notin DOMAIN properties
       THEN properties @@ ("title" :> TitleProperty(Val(p.title)))
       ELSE properties

\* variant: children is sent even when there is no block
_build_create_payload_always_children(p, blocks) ==
    LET properties == create_properties(p)
    IN [api_payload |-> [parent |-> to_api_payload(Val(p.parent)), properties |-> properties,
                         children |-> blocks],
        property_keys |-> sorted(DOMAIN properties)]

\* NotionWriteTool._build_create_payload, for a payload with a parent
_build_create_payload(p, blocks) ==
    LET properties == create_properties(p)
        base == [parent |-> to_api_payload(Val(p.parent)), properties |-> properties]
    IN [api_payload |-> IF Len(blocks) > 0
                        THEN [parent |-> base.parent, properties |-> base.properties,
                              children |-> blocks]
                        ELSE base,
        property_keys |-> sorted(DOMAIN properties)]

\* variant: the block count is always printed
_summarize_create_always_counts(p, blocks, property_keys, dry_run) ==
    LET parent_desc == IF ~IsNone(p.parent) THEN describe(Val(p.parent)) ELSE <<"parent not set">>
        action_phrase == IF dry_run THEN "would create" ELSE "Created"
        prefix == IF dry_run THEN "Dry run: " ELSE ""
        title == IF TruthyStr(p.title) THEN Val(p.title) ELSE "untitled"
    IN Str(<<prefix, action_phrase, " page under ">> \o parent_desc
           \o <<" with title '", title, "'", " (", ToString(Len(blocks)), " block(s)", "; ">>
           \o _format_property_keys(property_keys) \o <<").">>)

\* NotionWriteTool._summarize_create
_summarize_create(p, blocks, property_keys, dry_run) ==
    LET parent_desc == IF ~IsNone(p.parent) THEN describe(Val(p.parent)) ELSE <<"parent not set">>
        blocks_count == Len(blocks)
        action_phrase == IF dry_run THEN "would create" ELSE "Created"
        prefix == IF dry_run THEN "Dry run: " ELSE ""
        title == IF TruthyStr(p.title) THEN Val(p.title) ELSE "untitled"
        blocks_fragment == IF blocks_count # 0 THEN <<ToString(blocks_count), " block(s)">>
                           ELSE <<"no blocks">>
        properties_fragment == _format_property_keys(property_keys)
    IN Str(<<prefix, action_phrase, " page under ">> \o parent_desc
           \o <<" with title '", title, "'", " (">> \o blocks_fragment \o <<"; ">>
           \o properties_fragment \o <<").">>)

\* variant: an empty properties map still counts as a properties update
_summarize_update_on_not_none(p, blocks, dry_run) ==
    LET page_id == Val(p.update).page_id
        count == <<ToString(Len(blocks)), " block(s)">>
        verb == IF Val(p.update).mode = "replace" THEN "Replaced content with " ELSE "Appended "
        keys == sorted(IF IsNone(p.properties) THEN {} ELSE DOMAIN Val(p.properties))
        fragment == <<"properties (">> \o Join(keys, ", ") \o <<")">>
        phrase == IF Len(blocks) # 0
                  THEN <<verb>> \o count
                       \o (IF ~IsNone(p.properties) THEN <<" and updated ">> \o fragment ELSE <<>>)
                  ELSE IF ~IsNone(p.properties) THEN <<"Updated ">> \o fragment
                  ELSE <<"No changes">>
    IN Str((IF dry_run THEN <<"Dry run: would ">> ELSE <<>>) \o phrase
           \o <<" on page ", page_id, ".">>)

\* variant: the verb does not follow the mode
_summarize_update_always_appended(p, blocks, dry_run) ==
    LET page_id == Val(p.update).page_id
        count == <<ToString(Len(blocks)), " block(s)">>
        keys == sorted(IF IsNone(p.properties) THEN {} ELSE DOMAIN Val(p.properties))
        fragment == <<"properties (">> \o Join(keys, ", ") \o <<")">>
        future_phrase ==
            IF Len(blocks) # 0
            THEN <<"append ">> \o count
                 \o (IF Len(keys) > 0 THEN <<" and update ">> \o fragment ELSE <<>>)
            ELSE IF Len(keys) > 0 THEN <<"update ">> \o fragment
            ELSE <<"make no changes">>
        past_phrase ==
            IF Len(blocks) # 0
            THEN <<"Appended ">> \o count
                 \o (IF Len(keys) > 0 THEN <<" and updated ">> \o fragment ELSE <<>>)
            ELSE IF Len(keys) > 0 THEN <<"Updated ">> \o fragment
            ELSE <<"No changes">>
    IN IF dry_run
       THEN Str(<<"Dry run: would ">> \o future_phrase \o <<" on page ", page_id, ".">>)
       ELSE Str(past_phrase \o <<" on page ", page_id, ".">>)

\* NotionWriteTool._summarize_update
_summarize_update(p, blocks, dry_run) ==
    LET block_count == Len(blocks)
        mode == Val(p.update).mode
        page_id == Val(p.update).page_id
        property_keys == sorted(IF IsNone(p.properties) THEN {} ELSE DOMAIN Val(p.properties))
        has_keys == Len(property_keys) > 0
        properties_fragment == IF has_keys
                               THEN <<"properties (">> \o Join(property_keys, ", ") \o <<")">>
                               ELSE <<"properties">>
        count == <<ToString(block_count), " block(s)">>
        future_phrase ==
            IF block_count # 0
            THEN (IF mode = "replace" THEN <<"replace content with ">> \o count
                  ELSE <<"append ">> \o count)
                 \o (IF has_keys THEN <<" and update ">> \o properties_fragment ELSE <<>>)
            ELSE IF has_keys THEN <<"update ">> \o properties_fragment
            ELSE <<"make no changes">>
        past_phrase ==
            IF block_count # 0
            THEN (IF mode = "replace" THEN <<"Replaced content with ">> \o count
                  ELSE <<"Appended ">> \o count)
                 \o (IF has_keys THEN <<" and updated ">> \o properties_fragment ELSE <<>>)
            ELSE IF has_keys THEN <<"Updated ">> \o properties_fragment
            ELSE <<"No changes">>
    IN IF dry_run
       THEN Str(<<"Dry run: would ">> \o future_phrase \o <<" on page ", page_id, ".">>)
       ELSE Str(past_phrase \o <<" on page ", page_id, ".">>)

\* NotionWriteResult
NotionWriteResult(action, page_id, url, summary) ==
    [action |-> action, page_id |-> page_id, url |-> url, summary |-> summary]

\* NotionWriteTool._build_result
_build_result(action, response, summary) ==
    NotionWriteResult(action, response.id, response.url, summary)

-----------------------------------------------------------------------------
(* Client adapter                                                          *)

PageUrl(page_id) == "https://notion.so/" \o page_id

\* responses of pages.create: a mapping with id and, usually, url
CreateResponses ==
    { [mapping |-> TRUE, id |-> Some("page-created"), url |-> Some(PageUrl("page-created"))],
      [mapping |-> TRUE, id |-> Some("page-created"), url |-> None] }

\* responses of pages.update and blocks.children.append (ignored by the tool)
AckResponses == { [mapping |-> TRUE, id |-> None, url |-> None] }

\* responses of pages.retrieve: a mapping with or without a str url, or no mapping
RetrieveResponses(page_id) ==
    { [mapping |-> TRUE, id |-> Some(page_id), url |-> Some(PageUrl(page_id))],
      [mapping |-> TRUE, id |-> Some(page_id), url |-> None],
      [mapping |-> FALSE, id |-> None, url |-> None] }

-----------------------------------------------------------------------------
(* Control flow of one invocation: what the code does next                 *)

Raise(error) == [t |-> "raise", error |-> error]
Return(result) == [t |-> "return", result |-> result]
Call(op, args) == [t |-> "call", op |-> op, args |-> args]

Running == [kind |-> "running"]
Returned(result) == [kind |-> "returned", result |-> result]
Raised(error) == [kind |-> "raised", error |-> error]

\* variant: replace is always sent, with the truth value of the mode test
append_params_always_replace_key(p, blocks) ==
    [block_id |-> Val(p.update).page_id, children |-> blocks,
     replace |-> (Val(p.update).mode = "replace")]

\* params of blocks.children.append (write.py 448-453 and 474-479)
append_params(p, blocks) ==
    IF Val(p.update).mode = "replace"
    THEN [block_id |-> Val(p.update).page_id, children |-> blocks, replace |-> TRUE]
    ELSE [block_id |-> Val(p.update).page_id, children |-> blocks]

\* variant: the url of the response is not read
retrieved_url_dropped(response) == None

\* url extraction after pages.retrieve returned (write.py 527-531 and 538-542)
retrieved_url(response) ==
    IF response.mapping /\ ~IsNone(response.url) THEN response.url ELSE None

(* ---- synchronous path ---- *)

\* _retrieve_page_url_sync: issue pages.retrieve
_retrieve_page_url_sync(page_id) == Call("pages.retrieve", [page_id |-> page_id])

\* _apply_update_sync, blocks step; then _handle_update_sync goes on to the retrieve
_apply_update_sync_blocks(p, blocks) ==
    IF Len(blocks) > 0
    THEN Call("blocks.children.append", append_params(p, blocks))
    ELSE _retrieve_page_url_sync(Val(p.update).page_id)

\* variant: properties are sent whenever they are not None
_apply_update_sync_on_not_none(p, blocks) ==
    IF ~IsNone(p.properties)
    THEN Call("pages.update",
              [page_id |-> Val(p.update).page_id, properties |-> Val(p.properties)])
    ELSE _apply_update_sync_blocks(p, blocks)

\* _apply_update_sync, properties step
_apply_update_sync(p, blocks) ==
    IF TruthyDict(p.properties)
    THEN Call("pages.update",
              [page_id |-> Val(p.update).page_id, properties |-> Val(p.properties)])
    ELSE _apply_update_sync_blocks(p, blocks)

\* variant: the dry-run return is missing
_handle_update_sync_applies_dry_run(p) ==
    LET s == _sanitize_blocks(p.blocks) IN
    IF ~s.ok THEN Raise(NotionConfigurationError(s.message))
    ELSE _apply_update_sync(p, s.blocks)

\* variant: the dry-run summary is written before the blocks are known
_handle_update_sync_early_summary(p) ==
    LET s == _sanitize_blocks(p.blocks) IN
    IF ~s.ok THEN Raise(NotionConfigurationError(s.message))
    ELSE IF p.is_dry_run
    THEN Return(NotionWriteResult("dry_run", Some(Val(p.update).page_id), None,
                                  _summarize_update(p, <<>>, TRUE)))
    ELSE _apply_update_sync(p, s.blocks)

\* _handle_update_sync up to its first adapter call
_handle_update_sync(p) ==
    LET s == _sanitize_blocks(p.blocks) IN
    IF ~s.ok THEN Raise(NotionConfigurationError(s.message))
    ELSE IF p.is_dry_run
    THEN Return(NotionWriteResult("dry_run", Some(Val(p.update).page_id), None,
                                  _summarize_update(p, s.blocks, TRUE)))
    ELSE _apply_update_sync(p, s.blocks)

\* _execute_sync up to its first adapter call
_execute_sync(p) ==
    IF ~IsNone(p.update) THEN _handle_update_sync(p)
    ELSE LET s == _sanitize_blocks(p.blocks) IN
         IF ~s.ok THEN Raise(NotionConfigurationError(s.message))
         ELSE LET built == _build_create_payload(p, s.blocks) IN
              IF HasKey(built.api_payload.parent, "raised")
              THEN Raise(built.api_payload.parent.raised)
              ELSE IF p.is_dry_run
              THEN Return(NotionWriteResult("dry_run", None, None,
                            _summarize_create(p, s.blocks, built.property_keys, TRUE)))
              ELSE Call("pages.create", built.api_payload)

\* variant: the page is retrieved before the blocks are appended
resume_sync_retrieve_first(p, op, response) ==
    LET blocks == _sanitize_blocks(p.blocks).blocks IN
    IF op = "pages.create"
    THEN Return(_build_result("created", response,
                  _summarize_create(p, blocks, _build_create_payload(p, blocks).property_keys,
                                    FALSE)))
    ELSE IF op = "pages.update" THEN _retrieve_page_url_sync(Val(p.update).page_id)
    ELSE IF op = "pages.retrieve" /\ Len(blocks) > 0
    THEN Call("blocks.children.append", append_params(p, blocks))
    ELSE Return(NotionWriteResult("updated", Some(Val(p.update).page_id),
                                  retrieved_url(response), _summarize_update(p, blocks, FALSE)))

\* variant: the created page is retrieved to obtain its url
resume_sync_retrieves_created(p, op, response) ==
    LET blocks == _sanitize_blocks(p.blocks).blocks IN
    IF op = "pages.create" THEN _retrieve_page_url_sync(Val(response.id))
    ELSE IF op = "pages.update" THEN _apply_update_sync_blocks(p, blocks)
    ELSE IF op = "blocks.children.append"
    THEN _retrieve_page_url_sync(Val(p.update).page_id)
    ELSE IF IsNone(p.update)
    THEN Return(NotionWriteResult("created", response.id, retrieved_url(response),
                  _summarize_create(p, blocks, _build_create_payload(p, blocks).property_keys,
                                    FALSE)))
    ELSE Return(NotionWriteResult("updated", Some(Val(p.update).page_id),
                                  retrieved_url(response), _summarize_update(p, blocks, FALSE)))

\* the synchronous code that runs after an adapter call returned
resume_sync(p, op, response) ==
    LET blocks == _sanitize_blocks(p.blocks).blocks IN
    IF op = "pages.create"
    THEN Return(_build_result("created", response,
                  _summarize_create(p, blocks, _build_create_payload(p, blocks).property_keys,
                                    FALSE)))
    ELSE IF op = "pages.update" THEN _apply_update_sync_blocks(p, blocks)
    ELSE IF op = "blocks.children.append"
    THEN _retrieve_page_url_sync(Val(p.update).page_id)
    ELSE Return(NotionWriteResult("updated", Some(Val(p.update).page_id),
                                  retrieved_url(response), _summarize_update(p, blocks, FALSE)))

\* variant: the error is swallowed and the code after the call runs
except_sync_swallows(p, op, error) ==
    resume_sync(p, op, [mapping |-> FALSE, id |-> None, url |-> None])

\* variant: a failed append is reported under the name of the properties update
except_sync_mislabels(p, op, error) ==
    Raise(_raise_tool_error(
            IF op = "pages.create" THEN "Create page"
            ELSE IF op = "pages.retrieve" THEN "Retrieve page"
            ELSE "Update page properties",
            error))

\* the except clause around each synchronous adapter call
except_sync(p, op, error) ==
    Raise(_raise_tool_error(
            IF op = "pages.create" THEN "Create page"
            ELSE IF op = "pages.update" THEN "Update page properties"
            ELSE IF op = "blocks.children.append" THEN "Update page blocks"
            ELSE "Retrieve page",
            error))

(* ---- asynchronous path ---- *)

\* _retrieve_page_url_async: issue pages.retrieve
_retrieve_page_url_async(page_id) == Call("pages.retrieve", [page_id |-> page_id])

\* _apply_update_async, blocks step; then _handle_update_async goes on to the retrieve
_apply_update_async_blocks(p, blocks) ==
    IF Len(blocks) > 0
    THEN Call("blocks.children.append", append_params(p, blocks))
    ELSE _retrieve_page_url_async(Val(p.update).page_id)

\* _apply_update_async, properties step
_apply_update_async(p, blocks) ==
    IF TruthyDict(p.properties)
    THEN Call("pages.update",
              [page_id |-> Val(p.update).page_id, properties |-> Val(p.properties)])
    ELSE _apply_update_async_blocks(p, blocks)

\* _handle_update_async up to its first adapter call
_handle_update_async(p) ==
    LET s == _sanitize_blocks(p.blocks) IN
    IF ~s.ok THEN Raise(NotionConfigurationError(s.message))
    ELSE IF p.is_dry_run
    THEN Return(NotionWriteResult("dry_run", Some(Val(p.update).page_id), None,
                                  _summarize_update(p, s.blocks, TRUE)))
    ELSE _apply_update_async(p, s.blocks)

\* _execute_async up to its first adapter call
_execute_async(p) ==
    IF ~IsNone(p.update) THEN _handle_update_async(p)
    ELSE LET s == _sanitize_blocks(p.blocks) IN
         IF ~s.ok THEN Raise(NotionConfigurationError(s.message))
         ELSE LET built == _build_create_payload(p, s.blocks) IN
              IF HasKey(built.api_payload.parent, "raised")
              THEN Raise(built.api_payload.parent.raised)
              ELSE IF p.is_dry_run
              THEN Return(NotionWriteResult("dry_run", None, None,
                            _summarize_create(p, s.blocks, built.property_keys, TRUE)))
              ELSE Call("pages.create", built.api_payload)

\* the asynchronous code that runs after an awaited adapter call returned
resume_async(p, op, response) ==
    LET blocks == _sanitize_blocks(p.blocks).blocks IN
    IF op = "pages.create"
    THEN Return(_build_result("created", response,
                  _summarize_create(p, blocks, _build_create_payload(p, blocks).property_keys,
                                    FALSE)))
    ELSE IF op = "pages.update" THEN _apply_update_async_blocks(p, blocks)
    ELSE IF op = "blocks.children.append"
    THEN _retrieve_page_url_async(Val(p.update).page_id)
    ELSE Return(NotionWriteResult("updated", Some(Val(p.update).page_id),
                                  retrieved_url(response), _summarize_update(p, blocks, FALSE)))

\* the except clause around each awaited adapter call
except_async(p, op, error) ==
    Raise(_raise_tool_error(
            IF op = "pages.create" THEN "Create page"
            ELSE IF op = "pages.update" THEN "Update page properties"
            ELSE IF op = "blocks.children.append" THEN "Update page blocks"
            ELSE "Retrieve page",
            error))

-----------------------------------------------------------------------------
(* State machine: _run on a request, then _arun on the same request with   *)
(* a client adapter that behaves the same way                              *)

Init ==
    /\ request \in Requests
    /\ notion_client \in BOOLEAN
    /\ path = "sync"
    /\ pc = "start"
    /\ payload = None
    /\ calls = <<>>
    /\ outcome = Running
    /\ script = <<>>
    /\ first = [calls |-> <<>>, outcome |-> Running]
    /\ text = <<>>
    /\ document = None

\* the calls log once the call in flight (if any) has ended with the given status
Settle(status) ==
    IF Len(calls) > 0 /\ Last(calls).status = "pending"
    THEN [calls EXCEPT ![Len(calls)].status = status]
    ELSE calls

\* carry out what the code does next: issue an adapter call, return or raise
Apply(step, log) ==
    IF step.t = "call"
    THEN /\ calls' = Append(log, [op |-> step.op, args |-> step.args, status |-> "pending"])
         /\ pc' = "await"
         /\ outcome' = outcome
    ELSE /\ calls' = log
         /\ pc' = "done"
         /\ outcome' = IF step.t = "return" THEN Returned(step.result) ELSE Raised(step.error)

\* NotionWriteTool._run: coerce, then _execute_sync up to the first adapter call
_run ==
    /\ pc = "start"
    /\ path = "sync"
    /\ LET c == _coerce_payload(request) IN
       IF ~c.ok
       THEN /\ payload' = None
            /\ Apply(Raise(NotionConfigurationError(ValidationError.message)), calls)
       ELSE /\ payload' = Some(c.payload)
            /\ Apply(_execute_sync(c.payload), calls)
    /\ UNCHANGED <<request, notion_client, path, script, first, text, document>>

\* NotionWriteTool._arun: coerce, then _execute_async up to the first awaited call
_arun ==
    /\ pc = "start"
    /\ path = "async"
    /\ LET c == _coerce_payload(request) IN
       IF ~c.ok
       THEN /\ payload' = None
            /\ Apply(Raise(ValidationError), calls)
       ELSE /\ payload' = Some(c.payload)
            /\ Apply(_execute_async(c.payload), calls)
    /\ UNCHANGED <<request, notion_client, path, script, first, text, document>>

\* the adapter behaves in the second invocation as it did in the first
Replayed(behaviour) ==
    Len(calls) <= Len(script) => behaviour = script[Len(calls)]

\* script[k] is what the adapter did to the k-th call of an invocation
Record(behaviour) ==
    script' = IF Len(calls) > Len(script) THEN Append(script, behaviour) ELSE script

Awaiting(op) == pc = "await" /\ Last(calls).op = op

\* the adapter call in flight returns and the invocation goes on
Resume(op, response) ==
    /\ Awaiting(op)
    /\ Replayed([raises |-> FALSE, response |-> response])
    /\ Record([raises |-> FALSE, response |-> response])
    /\ Apply(IF path = "sync" THEN resume_sync(Val(payload), op, response)
             ELSE resume_async(Val(payload), op, response),
             Settle("returned"))
    /\ UNCHANGED <<request, notion_client, path, payload, first, text, document>>

PagesCreateReturns == \E r \in CreateResponses : Resume("pages.create", r)

PagesUpdateReturns == \E r \in AckResponses : Resume("pages.update", r)

BlocksChildrenAppendReturns == \E r \in AckResponses : Resume("blocks.children.append", r)

PagesRetrieveReturns ==
    /\ Awaiting("pages.retrieve")
    /\ \E r \in RetrieveResponses(Last(calls).args.page_id) : Resume("pages.retrieve", r)

\* the adapter call in flight raises and the except clause runs
AdapterRaises ==
    /\ pc = "await"
    /\ \E e \in AdapterErrors :
        /\ Replayed([raises |-> TRUE, error |-> e])
        /\ Record([raises |-> TRUE, error |-> e])
        /\ Apply(IF path = "sync" THEN except_sync(Val(payload), Last(calls).op, e)
                 ELSE except_async(Val(payload), Last(calls).op, e),
                 Settle("raised"))
    /\ UNCHANGED <<request, notion_client, path, payload, first, text, document>>

\* the caller repeats the finished request through the asynchronous entry point
StartAsync ==
    /\ pc = "done"
    /\ path = "sync"
    /\ first' = [calls |-> calls, outcome |-> outcome]
    /\ path' = "async"
    /\ pc' = "start"
    /\ payload' = None
    /\ calls' = <<>>
    /\ outcome' = Running
    /\ UNCHANGED <<request, notion_client, script, text, document>>

Next ==
    \/ _run
    \/ _arun
    \/ PagesCreateReturns
    \/ PagesUpdateReturns
    \/ BlocksChildrenAppendReturns
    \/ PagesRetrieveReturns
    \/ AdapterRaises
    \/ StartAsync

Spec == Init /\ [][Next]_vars

-----------------------------------------------------------------------------
(* from_text called on its own                                             *)

FromTextInit ==
    /\ request = [title |-> None, parent |-> None, blocks |-> None, update |-> None,
                  properties |-> None, is_dry_run |-> FALSE]
    /\ notion_client = TRUE
    /\ path = "sync"
    /\ pc = "start"
    /\ payload = None
    /\ calls = <<>>
    /\ outcome = Running
    /\ script = <<>>
    /\ first = [calls |-> <<>>, outcome |-> Running]
    /\ text \in TextInputs
    /\ document = None

\* from_text(text) returns
FromTextReturns ==
    /\ document = None
    /\ document' = Some(from_text(text))
    /\ UNCHANGED <<text, tool_vars>>

FromTextNext == FromTextReturns

FromTextSpec == FromTextInit /\ [][FromTextNext]_vars

-----------------------------------------------------------------------------
(* Shapes                                                                   *)

TypeOK ==
    /\ path \in {"sync", "async"}
    /\ pc \in {"start", "await", "done"}
    /\ (pc = "done") = (outcome.kind # "running")
    /\ \A i \in 1..Len(calls) : (calls[i].status = "pending") => (i = Len(calls) /\ pc = "await")

-----------------------------------------------------------------------------
(* Vocabulary of the properties below                                      *)

\* the request passes the pydantic validators and the block sanitizer
Accepted == _coerce_payload(request).ok /\ _sanitize_blocks(request.blocks).ok

IsCreate == Accepted /\ IsNone(request.update)
IsUpdate == Accepted /\ ~IsNone(request.update)

\* the blocks that reach the adapter
SanitizedBlocks == _sanitize_blocks(request.blocks).blocks

Finished == pc = "done"
HasReturned == Finished /\ outcome.kind = "returned"
HasRaised == Finished /\ outcome.kind = "raised"

Count(op) == Cardinality({i \in 1..Len(calls) : calls[i].op = op})
Ops == [i \in 1..Len(calls) |-> calls[i].op]
AllReturned == \A i \in 1..Len(calls) : calls[i].status = "returned"

\* what the adapter did to the k-th call of the running invocation
Behaviour(k) == script[k]

MutationOps == {"pages.update", "blocks.children.append"}

-----------------------------------------------------------------------------
(* C1  dry run                                                             *)

\* C1: a dry-run request that passes validation and sanitization makes no adapter
\* call at all, in the create and in the update branch, and returns action
\* "dry_run" with url None and page_id None (create) or update.page_id (update).
C1_DryRunMakesNoCall ==
    (request.is_dry_run /\ Accepted) =>
        /\ calls = <<>>
        /\ pc # "await"
        /\ Finished =>
            /\ outcome.kind = "returned"
            /\ outcome.result.action = "dry_run"
            /\ outcome.result.url = None
            /\ outcome.result.page_id =
                 (IF IsNone(request.update) THEN None ELSE Some(Val(request.update).page_id))

C1_Witness ==
    /\ HasReturned
    /\ request.is_dry_run
    /\ IsUpdate
    /\ TruthyDict(request.properties)
    /\ Len(SanitizedBlocks) = 2
    /\ outcome.result.page_id = Some("page-42")

-----------------------------------------------------------------------------
(* C2  order of the adapter calls of an update                             *)

OpRank(op) ==
    IF op = "pages.update" THEN 1
    ELSE IF op = "blocks.children.append" THEN 2
    ELSE IF op = "pages.retrieve" THEN 3
    ELSE 0

\* C2: in a non-dry-run update the calls are issued in the order pages.update,
\* blocks.children.append, pages.retrieve; a call is issued only when every earlier
\* call of the invocation has returned without error, and pages.retrieve is last.
C2_UpdateCallOrder ==
    (IsUpdate /\ ~request.is_dry_run) =>
        /\ \A i, j \in 1..Len(calls) : i < j => OpRank(calls[i].op) < OpRank(calls[j].op)
        /\ \A i \in 1..Len(calls) : i < Len(calls) => calls[i].status = "returned"
        /\ \A i \in 1..Len(calls) : calls[i].op = "pages.retrieve" => i = Len(calls)

C2_Witness ==
    /\ IsUpdate
    /\ pc = "await"
    /\ Ops = <<"pages.update", "blocks.children.append", "pages.retrieve">>
    /\ calls[1].status = "returned"
    /\ calls[2].status = "returned"
    /\ calls[3].status = "pending"

-----------------------------------------------------------------------------
(* C3  parent and update are mutually exclusive                            *)

\* C3: _run rejects a request with both parent and update, or with neither, with a
\* NotionConfigurationError, and no adapter call has been made.
C3_ParentXorUpdate ==
    (path = "sync" /\ IsNone(request.parent) = IsNone(request.update)) =>
        /\ calls = <<>>
        /\ pc # "await"
        /\ Finished => (outcome.kind = "raised"
                        /\ outcome.error.cls = "NotionConfigurationError")

C3_Witness ==
    /\ path = "sync"
    /\ HasRaised
    /\ ~IsNone(request.parent)
    /\ NotionPageParent_valid(Val(request.parent))
    /\ ~IsNone(request.update)
    /\ NotionUpdateInstruction_valid(Val(request.update))
    /\ TruthyList(request.blocks)
    /\ outcome.error.cls = "NotionConfigurationError"

-----------------------------------------------------------------------------
(* C4  the two mutation steps of an update are skipped independently       *)

\* C4: in a finished non-dry-run update, pages.update was called once if properties
\* is non-empty and never otherwise; blocks.children.append was called once if the
\* sanitized block list is non-empty (and the properties update, if any, returned)
\* and never otherwise; pages.retrieve follows once, as the last call, when the
\* mutation calls returned.
C4_StepsSkippedIndependently ==
    (IsUpdate /\ ~request.is_dry_run) =>
        /\ ~TruthyDict(request.properties) => Count("pages.update") = 0
        /\ Len(SanitizedBlocks) = 0 => Count("blocks.children.append") = 0
        /\ Finished =>
            LET update_failed == \E i \in 1..Len(calls) :
                                    calls[i].op = "pages.update" /\ calls[i].status = "raised"
                mutation_failed == \E i \in 1..Len(calls) :
                                    calls[i].op \in MutationOps /\ calls[i].status = "raised"
            IN /\ Count("pages.update") = (IF TruthyDict(request.properties) THEN 1 ELSE 0)
               /\ Count("blocks.children.append") =
                    (IF Len(SanitizedBlocks) > 0 /\ ~update_failed THEN 1 ELSE 0)
               /\ Count("pages.retrieve") = (IF mutation_failed THEN 0 ELSE 1)
               /\ ~mutation_failed => Last(calls).op = "pages.retrieve"
               /\ Count("pages.create") = 0

C4_Witness ==
    /\ IsUpdate
    /\ HasReturned
    /\ TruthyDict(request.properties)
    /\ IsNone(request.blocks)
    /\ Ops = <<"pages.update", "pages.retrieve">>

-----------------------------------------------------------------------------
(* C5  an update with nothing to do                                        *)

NothingToDo ==
    /\ IsUpdate
    /\ ~request.is_dry_run
    /\ request.properties = Some(EmptyDict)
    /\ ~TruthyList(request.blocks)

\* C5: an update with an empty properties map and no (or an empty list of) blocks
\* issues no pages.update and no append, issues exactly one pages.retrieve, and,
\* that call having returned, returns action "updated" with the summary
\* "No changes on page <id>." and the url of the retrieve response; it raises only
\* if pages.retrieve raised.
C5_NoChangesIsNotAnError ==
    NothingToDo =>
        /\ \A i \in 1..Len(calls) : calls[i].op = "pages.retrieve"
        /\ Len(calls) <= 1
        /\ Finished =>
            /\ Len(calls) = 1
            /\ (outcome.kind = "raised") = (calls[1].status = "raised")
            /\ outcome.kind = "returned" =>
                /\ outcome.result.action = "updated"
                /\ outcome.result.page_id = Some(Val(request.update).page_id)
                /\ outcome.result.summary =
                     <<"No changes", " on page ", Val(request.update).page_id, ".">>
                /\ outcome.result.url =
                     (IF Behaviour(1).response.mapping THEN Behaviour(1).response.url ELSE None)

C5_Witness ==
    /\ NothingToDo
    /\ HasReturned
    /\ IsNone(request.blocks)
    /\ outcome.result.url = Some("https://notion.so/page-42")
    /\ outcome.result.summary = <<"No changes", " on page ", "page-42", ".">>

-----------------------------------------------------------------------------
(* C6, C7  wrapping of adapter errors                                      *)

\* the operation name the claim gives for each adapter call
OperationName(op) ==
    IF op = "pages.create" THEN "Create page"
    ELSE IF op = "pages.update" THEN "Update page properties"
    ELSE IF op = "blocks.children.append" THEN "Update page blocks"
    ELSE "Retrieve page"

StartsWith(s, prefix) == Len(s) >= Len(prefix) /\ SubSeq(s, 1, Len(prefix)) = prefix

\* an adapter call of the finished invocation raised
AdapterCallRaised == Finished /\ Len(calls) > 0 /\ Last(calls).status = "raised"

\* the error that call raised
AdapterError == Behaviour(Len(calls)).error

PropagatedClasses == {"ToolExecutionError", "NotionConfigurationError"}

\* C6 as claimed: every error raised by an adapter call ends the invocation with a
\* ToolExecutionError whose message starts with "<Operation> failed: <original>".
C6_EveryAdapterErrorWrapped ==
    AdapterCallRaised =>
        /\ outcome.kind = "raised"
        /\ outcome.error.cls = "ToolExecutionError"
        /\ StartsWith(outcome.error.message,
                      <<OperationName(Last(calls).op), " failed: ">> \o AdapterError.message)

\* C6 (amended): every error raised by an adapter call that is not itself a
\* ToolExecutionError or a NotionConfigurationError ends the invocation with a
\* ToolExecutionError whose message starts with "<Operation> failed: <original>";
\* an error of those two classes leaves the invocation unchanged.
C6_AdapterErrorWrapped ==
    AdapterCallRaised =>
        /\ outcome.kind = "raised"
        /\ IF AdapterError.cls \in PropagatedClasses
           THEN outcome.error = AdapterError
           ELSE /\ outcome.error.cls = "ToolExecutionError"
                /\ StartsWith(outcome.error.message,
                              <<OperationName(Last(calls).op), " failed: ">>
                              \o AdapterError.message)

C6_Witness ==
    /\ AdapterCallRaised
    /\ Last(calls).op = "blocks.children.append"
    /\ AdapterError.cls = "RuntimeError"
    /\ outcome.error.message = <<"Update page blocks", " failed: ", "fail">>

\* C7: when the error raised by an adapter call carries a code and / or a status,
\* the message of the wrapping error is "<Operation> failed: <original>" followed by
\* " (code <code>)" and / or " [status <status>]", in that order, whatever the class
\* of the error.
C7_CodeAndStatusAppended ==
    (AdapterCallRaised /\ AdapterError.cls \notin PropagatedClasses) =>
        outcome.error.message =
            <<OperationName(Last(calls).op), " failed: ">> \o AdapterError.message
            \o (IF ~IsNone(AdapterError.code)
                THEN <<" (code ", Val(AdapterError.code), ")">> ELSE <<>>)
            \o (IF ~IsNone(AdapterError.status)
                THEN <<" [status ", Val(AdapterError.status), "]">> ELSE <<>>)

-----------------------------------------------------------------------------
(* C8  configuration errors                                                *)

MissingParent == IsNone(request.parent) /\ IsNone(request.update)

RejectedBlocks == TruthyList(request.blocks) /\ Val(request.blocks) \in InvalidBlockLists

\* C8: a request without parent, or whose blocks have a disallowed type, are more
\* than MAX_BLOCKS or exceed the text limit, ends with a NotionConfigurationError
\* and never with a wrapped tool error, before any adapter call, in both branches
\* and also in a dry run.
C8_ConfigurationErrorsSurface ==
    (MissingParent \/ RejectedBlocks) =>
        /\ calls = <<>>
        /\ Finished => (outcome.kind = "raised"
                        /\ outcome.error.cls = "NotionConfigurationError")

-----------------------------------------------------------------------------
(* C9  no error becomes a result                                           *)

\* C9: a call that raised is the last call of its invocation and the invocation
\* has ended with an error; a result "created" or "updated" is returned only when
\* every call issued has returned without error.
C9_NoErrorBecomesSuccess ==
    /\ \A i \in 1..Len(calls) :
          calls[i].status = "raised" => (i = Len(calls) /\ HasRaised)
    /\ HasReturned => AllReturned
    /\ (HasReturned /\ ~request.is_dry_run) =>
          /\ outcome.result.action \in {"created", "updated"}
          /\ Len(calls) >= 1

C9_Witness ==
    /\ HasRaised
    /\ Ops = <<"pages.update", "blocks.children.append">>
    /\ calls[1].status = "returned"
    /\ calls[2].status = "raised"
    /\ outcome.error.cls = "ToolExecutionError"

-----------------------------------------------------------------------------
(* C10  the asynchronous path mirrors the synchronous one                  *)

\* C10: for every request and every adapter behaviour, _arun issues the same
\* adapter calls with the same payloads as _run and ends in the same outcome: the
\* same result or the same error.
C10_AsyncMirrorsSync ==
    (path = "async" /\ Finished) =>
        /\ calls = first.calls
        /\ outcome = first.outcome

-----------------------------------------------------------------------------
(* C11  an invocation stays in its branch                                  *)

\* C11: an invocation issues at most three adapter calls; a non-dry-run create
\* issues pages.create, once, and never pages.update, append or pages.retrieve;
\* an update never issues pages.create and issues pages.update, append and
\* pages.retrieve at most once each.
C11_InvocationStaysInBranch ==
    /\ Len(calls) <= 3
    /\ (IsCreate /\ ~request.is_dry_run) =>
          /\ \A i \in 1..Len(calls) : calls[i].op = "pages.create"
          /\ Len(calls) <= 1
          /\ Finished => Count("pages.create") = 1
    /\ IsUpdate =>
          /\ Count("pages.create") = 0
          /\ Count("pages.update") <= 1
          /\ Count("blocks.children.append") <= 1
          /\ Count("pages.retrieve") <= 1
    /\ ~Accepted => calls = <<>>

C11_Witness ==
    /\ IsCreate
    /\ HasReturned
    /\ outcome.result.action = "created"
    /\ Ops = <<"pages.create">>
    /\ Len(SanitizedBlocks) = 2

-----------------------------------------------------------------------------
(* C12  the convenience title is set if absent                             *)

CallerProperties == IF IsNone(request.properties) THEN EmptyDict ELSE Val(request.properties)

PageParent == ~IsNone(request.parent) /\ ~IsNone(Val(request.parent).page_id)

\* the create call in flight or made, for a non-dry-run create
DispatchedCreate == calls[1].args

CreateDispatched == IsCreate /\ Len(calls) >= 1

\* C12: the properties sent to pages.create are the caller's properties, each
\* unchanged (a caller-supplied "title" included), plus a title property built from
\* title only if title is given, the parent is a page and the caller's properties
\* have no "title" key; a non-empty title with a page parent and no caller "title"
\* is always injected.
C12_TitleSetIfAbsent ==
    CreateDispatched =>
        LET sent == DispatchedCreate.properties
            injected == "title" \in DOMAIN sent /\ "title" \notin DOMAIN CallerProperties
        IN /\ \A k \in DOMAIN CallerProperties :
                 k \in DOMAIN sent /\ sent[k] = CallerProperties[k]
           /\ DOMAIN sent \subseteq DOMAIN CallerProperties \cup {"title"}
           /\ injected => /\ ~IsNone(request.title)
                          /\ PageParent
                          /\ sent["title"] = TitleProperty(Val(request.title))
           /\ (TruthyStr(request.title) /\ PageParent
               /\ "title" \notin DOMAIN CallerProperties) => injected

C12_Witness ==
    /\ CreateDispatched
    /\ HasReturned
    /\ PageParent
    /\ request.title = Some("Plan")
    /\ DOMAIN CallerProperties = {"Name", "Status", "Tags", "title"}
    /\ DispatchedCreate.properties["title"] = PropValue("Caller title")

-----------------------------------------------------------------------------
(* C13  the replace flag                                                   *)

\* C13: a blocks.children.append call carries replace = TRUE iff update.mode is
\* "replace" and has no replace key in append mode; an update whose mode is neither
\* "append" nor "replace" is rejected without any adapter call.
C13_ReplaceFlagIffReplaceMode ==
    /\ \A i \in 1..Len(calls) :
          calls[i].op = "blocks.children.append" =>
              /\ HasKey(calls[i].args, "replace") = (Val(request.update).mode = "replace")
              /\ HasKey(calls[i].args, "replace") => calls[i].args.replace = TRUE
              /\ Val(request.update).mode \in {"append", "replace"}
    /\ (~IsNone(request.update) /\ Val(request.update).mode \notin {"append", "replace"}) =>
          /\ calls = <<>>
          /\ Finished => outcome.kind = "raised"

C13_Witness ==
    /\ HasReturned
    /\ Count("blocks.children.append") = 1
    /\ Val(request.update).mode = "append"
    /\ ~HasKey(calls[Len(calls) - 1].args, "replace")

-----------------------------------------------------------------------------
(* C14  the pages.create payload                                           *)

\* C14: the pages.create payload has parent and properties, and has children iff
\* the sanitized block list is non-empty, in which case children is that list, one
\* block per input block in the input order.
C14_CreatePayloadShape ==
    CreateDispatched =>
        /\ HasKey(DispatchedCreate, "parent")
        /\ HasKey(DispatchedCreate, "properties")
        /\ HasKey(DispatchedCreate, "children") = (Len(SanitizedBlocks) >= 1)
        /\ HasKey(DispatchedCreate, "children") =>
              /\ DispatchedCreate.children = SanitizedBlocks
              /\ Len(DispatchedCreate.children) = Len(Val(request.blocks))
              /\ \A i \in 1..Len(DispatchedCreate.children) :
                    DispatchedCreate.children[i].type = Val(request.blocks)[i].type

C14_Witness ==
    /\ CreateDispatched
    /\ HasReturned
    /\ HasKey(DispatchedCreate, "children")
    /\ Len(DispatchedCreate.children) = 2
    /\ DispatchedCreate.children[2].type = "toggle"

-----------------------------------------------------------------------------
(* Reading a summary                                                       *)

RECURSIVE Flat(_)
\* the str whose pieces are given
Flat(pieces) == IF Len(pieces) = 0 THEN "" ELSE pieces[1] \o Flat(Tail(pieces))

Has(s, piece) == \E i \in 1..Len(s) : s[i] = piece
IndexOf(s, piece) == CHOOSE i \in 1..Len(s) : s[i] = piece /\ \A j \in 1..(i - 1) : s[j] # piece

\* the part of s strictly between the pieces a and b, <<>> when one is missing
Between(s, a, b) ==
    IF Has(s, a) /\ Has(s, b) THEN SubSeq(s, IndexOf(s, a) + 1, IndexOf(s, b) - 1) ELSE <<>>

\* a create invocation has returned its summary
CreateSummarized == IsCreate /\ HasReturned
Summary == outcome.result.summary

\* "(<blocks fragment>; <properties fragment>)." of the create summary
BlocksFragment == Flat(Between(Summary, " (", "; "))
PropertiesFragment == Flat(Between(Summary, "; ", ")."))

\* number of blocks of the request
BlockCount == IF IsNone(request.blocks) THEN 0 ELSE Len(Val(request.blocks))

-----------------------------------------------------------------------------
(* C15, C16  the block count of the create summary                         *)

C16_ZeroBlocksFragment ==
    (CreateSummarized /\ BlockCount = 0) =>
        /\ BlocksFragment = "0 block(s)"
        /\ (request.is_dry_run /\ request.title = Some("Plan") /\ PageParent
            /\ IsNone(request.properties)) =>
              Flat(Summary) = "Dry run: would create page under page parent-1 with title 'Plan' (0 block(s); properties: title)."
        /\ (~request.is_dry_run /\ IsNone(request.title) /\ ~PageParent) =>
              Flat(SubSeq(Summary, 1, IndexOf(Summary, "; "))) =
                "Created page under database db-1 with title 'untitled' (0 block(s); "

-----------------------------------------------------------------------------
(* C17  the property preview of the create summary                         *)

\* keys of the properties map a create dispatches (or would dispatch, in a dry run)
CreateKeys ==
    DOMAIN CallerProperties
    \cup (IF TruthyStr(request.title) /\ PageParent THEN {"title"} ELSE {})

\* C17: the property preview of the create summary lists the keys of the
\* dispatched properties (an injected title included) in sorted order: the first
\* three joined by ", ", followed by a further item "..." when there are more than
\* three, never more than three keys; it is "no properties" when there is none.
C17_PropertyPreview ==
    CreateSummarized =>
        LET keys == sorted(CreateKeys)
            shown == SubSeq(keys, 1, Min(3, Len(keys)))
            items == IF Len(keys) > 3 THEN Append(shown, "...") ELSE shown
            pieces == Between(Summary, "; ", ").")
        IN /\ Len(calls) >= 1 => DOMAIN DispatchedCreate.properties = CreateKeys
           /\ \A i, j \in 1..Len(keys) :
                 i < j => \E a, b \in 1..Len(KeyOrder) :
                             a < b /\ KeyOrder[a] = keys[i] /\ KeyOrder[b] = keys[j]
           /\ PropertiesFragment = (IF Len(keys) = 0 THEN "no properties"
                                    ELSE "properties: " \o Flat(Join(items, ", ")))
           /\ Cardinality({i \in 1..Len(pieces) : pieces[i] \in CreateKeys}) <= 3

C17_Witness ==
    /\ CreateSummarized
    /\ Cardinality(CreateKeys) = 4
    /\ PropertiesFragment = "properties: Name, Status, Tags, ..."

-----------------------------------------------------------------------------
(* C18, C19, C20  the update summary                                       *)

\* an update invocation has returned its summary
UpdateSummarized == IsUpdate /\ HasReturned

UpdatePageId == Val(request.update).page_id
UpdateMode == Val(request.update).mode

\* "k1, k2, ..." for the keys of the request's properties
UpdateKeys == sorted(DOMAIN CallerProperties)
UpdateKeysText == Flat(Join(UpdateKeys, ", "))

BlocksText == ToString(BlockCount) \o " block(s)"

\* the real update summary, with the given phrase for N blocks written in replace mode
RealUpdateSummary(replaced) ==
    (IF BlockCount >= 1
     THEN (IF UpdateMode = "replace" THEN replaced ELSE "Appended " \o BlocksText)
          \o (IF Len(UpdateKeys) > 0
              THEN " and updated properties (" \o UpdateKeysText \o ")" ELSE "")
     ELSE IF Len(UpdateKeys) > 0 THEN "Updated properties (" \o UpdateKeysText \o ")"
     ELSE "No changes")
    \o " on page " \o UpdatePageId \o "."

\* C18 as claimed: the real update summary is "{Appended|Replaced} N block(s)[ and
\* updated properties (k1, ...)] on page <id>.", "Updated properties (k1, ...) on
\* page <id>." or "No changes on page <id>.".
C18_UpdateSummaryReplacedN ==
    (UpdateSummarized /\ ~request.is_dry_run) =>
        Flat(Summary) = RealUpdateSummary("Replaced " \o BlocksText)

\* C18 (amended): as claimed, except that in replace mode the phrase for N >= 1
\* blocks is "Replaced content with N block(s)".
C18_UpdateSummary ==
    (UpdateSummarized /\ ~request.is_dry_run) =>
        Flat(Summary) = RealUpdateSummary("Replaced content with " \o BlocksText)

C18_Witness ==
    /\ UpdateSummarized
    /\ UpdateMode = "replace"
    /\ Flat(Summary) =
         "Replaced content with 2 block(s) and updated properties (Name, Status, Tags, title) on page page-42."

\* C19: a real update in replace mode with N >= 1 blocks and no properties returns
\* action "updated", the summary "Replaced content with N block(s) on page <id>."
\* and the url of the page pages.retrieve returned.
C19_ReplaceOnlySummary ==
    (UpdateSummarized /\ ~request.is_dry_run /\ UpdateMode = "replace"
     /\ BlockCount >= 1 /\ ~TruthyDict(request.properties)) =>
        /\ outcome.result.action = "updated"
        /\ outcome.result.page_id = Some(UpdatePageId)
        /\ Flat(Summary) = "Replaced content with " \o ToString(BlockCount)
                           \o " block(s) on page " \o UpdatePageId \o "."
        /\ Last(calls).op = "pages.retrieve"
        /\ outcome.result.url =
             (IF Behaviour(Len(calls)).response.mapping
              THEN Behaviour(Len(calls)).response.url ELSE None)

C19_Witness ==
    /\ UpdateSummarized
    /\ IsNone(request.properties)
    /\ Flat(Summary) = "Replaced content with 1 block(s) on page page-42."
    /\ outcome.result.url = Some("https://notion.so/page-42")

\* a piece of an update summary, in the tense of the dry run
NeutralPiece(piece) ==
    IF piece = "Appended " THEN "append "
    ELSE IF piece = "Replaced content with " THEN "replace content with "
    ELSE IF piece = " and updated " THEN " and update "
    ELSE IF piece = "Updated " THEN "update "
    ELSE IF piece = "No changes" THEN "make no changes"
    ELSE piece

\* an update summary without its dry-run prefix and in the tense of the dry run
Neutral(summary) ==
    LET body == SelectSeq(summary, LAMBDA x : x # "Dry run: would ")
    IN [i \in 1..Len(body) |-> NeutralPiece(body[i])]

\* C20: the summary an update returns and the summary of the same request with
\* is_dry_run flipped differ only in the prefix "Dry run: would " and in verb tense;
\* the append / replace verb follows update.mode alone, and the summary is the one
\* computed from the request, whatever the adapter answered.
C20_DryRunSummaryMatchesReal ==
    UpdateSummarized =>
        LET twin == _summarize_update(request, SanitizedBlocks, ~request.is_dry_run)
            dry == IF request.is_dry_run THEN Summary ELSE twin
            real == IF request.is_dry_run THEN twin ELSE Summary
        IN /\ Neutral(Summary) = Neutral(twin)
           /\ dry[1] = "Dry run: would "
           /\ Flat(dry) = "Dry run: would " \o Flat(Neutral(real))
           /\ ~Has(real, "Dry run: would ")
           /\ BlockCount >= 1 =>
                 /\ (dry[2] = "replace content with ") = (UpdateMode = "replace")
                 /\ (dry[2] = "append ") = (UpdateMode = "append")
                 /\ (real[1] = "Replaced content with ") = (UpdateMode = "replace")
                 /\ (real[1] = "Appended ") = (UpdateMode = "append")
           /\ (BlockCount >= 1 /\ UpdateMode = "append" /\ Len(UpdateKeys) = 0) =>
                 /\ Flat(dry) = "Dry run: would append " \o BlocksText
                                \o " on page " \o UpdatePageId \o "."
                 /\ Flat(real) = "Appended " \o BlocksText \o " on page " \o UpdatePageId \o "."
           /\ (BlockCount = 0 /\ Len(UpdateKeys) > 0) =>
                 /\ Flat(dry) = "Dry run: would update properties (" \o UpdateKeysText
                                \o ") on page " \o UpdatePageId \o "."
                 /\ Flat(real) = "Updated properties (" \o UpdateKeysText
                                 \o ") on page " \o UpdatePageId \o "."

C20_Witness ==
    /\ UpdateSummarized
    /\ request.is_dry_run
    /\ Flat(Summary) =
         "Dry run: would append 1 block(s) and update properties (Status) on page page-42."

-----------------------------------------------------------------------------
(* C21  request-shape validation                                           *)

\* a well-formed create request whose parent is a database / a page
CreateUnder(field) ==
    /\ IsNone(request.update)
    /\ ~IsNone(request.parent)
    /\ NotionPageParent_valid(Val(request.parent))
    /\ TruthyStr(Val(request.parent)[field])

\* the three request shapes the validator refuses
DatabaseWithoutProperties == CreateUnder("database_id") /\ IsNone(request.properties)
PageWithoutTitleOrProperties ==
    CreateUnder("page_id") /\ ~TruthyStr(request.title) /\ IsNone(request.properties)
UpdateWithoutContent ==
    /\ ~IsNone(request.update)
    /\ IsNone(request.parent)
    /\ IsNone(request.blocks)
    /\ IsNone(request.properties)

\* C21: a create under a database without properties, a create under a page with
\* neither title nor properties, and an update with neither blocks nor properties
\* are rejected: no adapter call is made, the invocation raises, and what _run
\* raises is a NotionConfigurationError.
C21_ShapeRejected ==
    (DatabaseWithoutProperties \/ PageWithoutTitleOrProperties \/ UpdateWithoutContent) =>
        /\ calls = <<>>
        /\ pc # "await"
        /\ Finished =>
            /\ outcome.kind = "raised"
            /\ path = "sync" => outcome.error.cls = "NotionConfigurationError"

C21_Witness ==
    /\ HasRaised
    /\ path = "sync"
    /\ DatabaseWithoutProperties
    /\ TruthyStr(request.title)
    /\ ~request.is_dry_run
    /\ outcome.error.cls = "NotionConfigurationError"

-----------------------------------------------------------------------------
(* C22  the parent reference                                               *)

\* the ids a parent reference carries (set and non-empty)
ParentIds(parent) == { f \in {"page_id", "database_id"} : TruthyStr(parent[f]) }

\* the parent reference of the constructed NotionWriteInput
ConstructedParent == Val(Val(payload).parent)

\* C22: a constructed parent reference carries exactly one of page_id / database_id;
\* to_api_payload and describe report that id and none of their fallbacks, and so
\* does the payload of pages.create.  A parent with both ids or with neither is
\* never constructed: the invocation raises without any adapter call.
C22_ParentExactlyOne ==
    /\ (~IsNone(payload) /\ ~IsNone(Val(payload).parent)) =>
          /\ Cardinality(ParentIds(ConstructedParent)) = 1
          /\ \A f \in ParentIds(ConstructedParent) :
                /\ to_api_payload(ConstructedParent)
                     = (f :> Val(ConstructedParent[f])) @@ [type |-> f]
                /\ Flat(describe(ConstructedParent))
                     = (IF f = "page_id" THEN "page " ELSE "database ")
                       \o Val(ConstructedParent[f])
                /\ CreateDispatched =>
                     DispatchedCreate.parent = to_api_payload(ConstructedParent)
    /\ (~IsNone(request.parent) /\ Cardinality(ParentIds(Val(request.parent))) # 1) =>
          /\ payload = None
          /\ calls = <<>>
          /\ Finished => outcome.kind = "raised"
    /\ HasReturned /\ IsNone(request.update) =>
          /\ ~Has(Summary, "unknown parent")
          /\ ~Has(Summary, "parent not set")

C22_Witness ==
    /\ HasReturned
    /\ CreateDispatched
    /\ ParentIds(ConstructedParent) = {"database_id"}
    /\ DispatchedCreate.parent = [type |-> "database_id", database_id |-> "db-1"]
    /\ Has(Summary, "database ")

-----------------------------------------------------------------------------
(* C23, C24  what the sanitizer refuses                                    *)

\* the block list handed to sanitize_blocks by the tool
SuppliedBlocks == IF TruthyList(request.blocks) THEN Val(request.blocks) ELSE <<>>

\* the request passes the pydantic validators, so that the sanitizer runs
Sanitizing == _coerce_payload(request).ok

\* the invocation ends in a NotionConfigurationError before any adapter call
RejectedWhole ==
    /\ calls = <<>>
    /\ pc # "await"
    /\ Finished => (outcome.kind = "raised" /\ outcome.error.cls = "NotionConfigurationError")

\* the allow-list of block types
AllowList ==
    {"paragraph", "heading_1", "heading_2", "heading_3", "bulleted_list_item",
     "numbered_list_item", "to_do", "toggle", "callout", "quote", "code"}

RECURSIVE HasTypeOutside(_, _)
\* some block of the tree, at any depth, has a type outside the given set
HasTypeOutside(blocks, allowed) ==
    \E i \in 1..Len(blocks) :
        \/ blocks[i].type \notin allowed
        \/ HasKey(blocks[i], "children") /\ HasTypeOutside(blocks[i].children, allowed)

\* C23: whenever some block of the supplied tree, at the top level or nested at any
\* depth in children, has a type outside the allow-list, sanitize_blocks fails and
\* the invocation ends in a NotionConfigurationError with nothing dispatched.
C23_UnknownTypeRejected ==
    /\ ALLOWED_BLOCK_TYPES = AllowList
    /\ (Sanitizing /\ HasTypeOutside(SuppliedBlocks, AllowList)) =>
          /\ ~sanitize_blocks(SuppliedBlocks).ok
          /\ RejectedWhole

C23_Witness ==
    /\ HasRaised
    /\ Sanitizing
    /\ Len(SuppliedBlocks) = 2
    /\ SuppliedBlocks[1].type \in AllowList
    /\ SuppliedBlocks[2].type \in AllowList
    /\ HasKey(SuppliedBlocks[2], "children")
    /\ SuppliedBlocks[2].children[1].type \in AllowList
    /\ HasKey(SuppliedBlocks[2].children[1], "children")
    /\ HasTypeOutside(SuppliedBlocks[2].children[1].children, AllowList)
    /\ outcome.error.cls = "NotionConfigurationError"

RECURSIVE AllSpans(_)
\* every rich-text span of the tree, parents before their children
AllSpans(blocks) ==
    IF Len(blocks) = 0 THEN <<>>
    ELSE (IF HasKey(blocks[1], "rich_text") THEN blocks[1].rich_text ELSE <<>>)
         \o (IF HasKey(blocks[1], "children") THEN AllSpans(blocks[1].children) ELSE <<>>)
         \o AllSpans(Tail(blocks))

RECURSIVE SumLen(_)
SumLen(spans) ==
    IF Len(spans) = 0 THEN 0
    ELSE Len(spans[1].text.content.chars) * spans[1].text.content.times + SumLen(Tail(spans))

\* the content length of the whole tree
ContentLength(blocks) == SumLen(AllSpans(blocks))

\* a list the count limit and the allow-list let through
CountAndTypesFine(blocks) == Len(blocks) <= 50 /\ ~HasTypeOutside(blocks, AllowList)

\* C24: for a list within the count limit and the allow-list, sanitize_blocks fails
\* exactly when the content length of the whole tree, children at any depth
\* included, exceeds 2000: a total of 2001 or more is refused with a
\* NotionConfigurationError although each block alone is under the limit, and a
\* total of exactly 2000 is accepted.
C24_SharedTextTotal ==
    /\ MAX_TOTAL_TEXT_LENGTH = 2000
    /\ (Sanitizing /\ CountAndTypesFine(SuppliedBlocks)) =>
          /\ sanitize_blocks(SuppliedBlocks).ok = (ContentLength(SuppliedBlocks) <= 2000)
          /\ ContentLength(SuppliedBlocks) > 2000 => RejectedWhole
          /\ ContentLength(SuppliedBlocks) <= 2000 =>
                (HasRaised => (Len(calls) >= 1 /\ Last(calls).status = "raised"))

C24_Witness ==
    /\ HasRaised
    /\ Sanitizing
    /\ CountAndTypesFine(SuppliedBlocks)
    /\ ContentLength(SuppliedBlocks) = 2001
    /\ \A i \in 1..Len(SuppliedBlocks) : ContentLength(<<SuppliedBlocks[i]>>) <= 1001
    /\ outcome.error.cls = "NotionConfigurationError"

\* a tree of exactly 2000 characters spread over three levels is dispatched
C24_ExactlyAtLimit ==
    /\ HasReturned
    /\ ContentLength(SuppliedBlocks) = 2000
    /\ Len(calls) >= 1

-----------------------------------------------------------------------------
(* C25  the block count limit                                              *)

\* the calls that carry blocks, and the blocks they carry
CarriesChildren(i) ==
    \/ calls[i].op = "blocks.children.append"
    \/ calls[i].op = "pages.create" /\ HasKey(calls[i].args, "children")
DispatchedChildren(i) == calls[i].args.children

\* C25: a list of more than 50 blocks is refused by sanitize_blocks and the
\* invocation raises NotionConfigurationError with no block dispatched; a list of
\* exactly 50 valid blocks is accepted; and whatever list is dispatched has as many
\* blocks as the caller supplied (a list is taken whole or refused whole).
C25_BlockCountLimit ==
    /\ MAX_BLOCKS = 50
    /\ Sanitizing =>
          /\ Len(SuppliedBlocks) > 50 =>
                (~sanitize_blocks(SuppliedBlocks).ok /\ RejectedWhole)
          /\ (Len(SuppliedBlocks) = 50 /\ ~HasTypeOutside(SuppliedBlocks, AllowList)
              /\ ContentLength(SuppliedBlocks) <= 2000) =>
                /\ sanitize_blocks(SuppliedBlocks).ok
                /\ Len(sanitize_blocks(SuppliedBlocks).blocks) = 50
                /\ HasRaised => (Len(calls) >= 1 /\ Last(calls).status = "raised")
          /\ \A i \in 1..Len(calls) :
                CarriesChildren(i) => Len(DispatchedChildren(i)) = Len(SuppliedBlocks)

C25_Witness ==
    /\ HasRaised
    /\ Sanitizing
    /\ Len(SuppliedBlocks) = 51
    /\ ContentLength(SuppliedBlocks) = 51
    /\ ~IsNone(request.update)
    /\ calls = <<>>
    /\ outcome.error.cls = "NotionConfigurationError"

\* exactly 50 blocks are appended in one call
C25_FiftyDispatched ==
    /\ HasReturned
    /\ Len(calls) = 2
    /\ calls[1].op = "blocks.children.append"
    /\ Len(DispatchedChildren(1)) = 50

-----------------------------------------------------------------------------
(* C26  what the sanitizer lets through                                    *)

\* a span and what it became: the same but for a link on its text
SameSpanButLink(in, out) ==
    /\ DOMAIN out = DOMAIN in
    /\ \A k \in DOMAIN in :
          IF k = "text"
          THEN /\ DOMAIN out.text = DOMAIN in.text \ {"link"}
               /\ \A t \in DOMAIN out.text : out.text[t] = in.text[t]
          ELSE out[k] = in[k]

RECURSIVE SameButLinks(_, _)
\* two block lists equal in order, fields and children, but for the links of in
SameButLinks(in, out) ==
    /\ Len(out) = Len(in)
    /\ \A i \in 1..Len(in) :
          /\ DOMAIN out[i] = DOMAIN in[i]
          /\ \A k \in DOMAIN in[i] :
                IF k = "rich_text"
                THEN /\ Len(out[i][k]) = Len(in[i][k])
                     /\ \A j \in 1..Len(in[i][k]) : SameSpanButLink(in[i][k][j], out[i][k][j])
                ELSE IF k = "children" THEN SameButLinks(in[i][k], out[i][k])
                ELSE out[i][k] = in[i][k]

RECURSIVE CarriesLink(_)
\* some span of the tree has a link on its text
CarriesLink(blocks) ==
    \E i \in 1..Len(blocks) :
        \/ HasKey(blocks[i], "rich_text")
           /\ \E j \in 1..Len(blocks[i].rich_text) : HasKey(blocks[i].rich_text[j].text, "link")
        \/ HasKey(blocks[i], "children") /\ CarriesLink(blocks[i].children)

WithinLimits(blocks) == CountAndTypesFine(blocks) /\ ContentLength(blocks) <= 2000

\* C26: for a list of valid blocks within both limits, sanitize_blocks returns the
\* blocks in the same order and unchanged but for the links, which are gone at every
\* depth; sanitizing its output changes nothing; and every list of children the
\* tool dispatches (pages.create, blocks.children.append) is that output: the
\* caller's blocks without any link.
C26_OnlyLinksRemoved ==
    (Sanitizing /\ WithinLimits(SuppliedBlocks)) =>
        LET out == sanitize_blocks(SuppliedBlocks) IN
        /\ out.ok
        /\ SameButLinks(SuppliedBlocks, out.blocks)
        /\ ~CarriesLink(out.blocks)
        /\ sanitize_blocks(out.blocks) = out
        /\ \A i \in 1..Len(calls) :
              CarriesChildren(i) =>
                 /\ ~CarriesLink(DispatchedChildren(i))
                 /\ SameButLinks(SuppliedBlocks, DispatchedChildren(i))

C26_Witness ==
    /\ HasReturned
    /\ Len(calls) >= 1
    /\ CarriesChildren(1)
    /\ Len(SuppliedBlocks) = 3
    /\ CarriesLink(<<SuppliedBlocks[1]>>)
    /\ HasKey(SuppliedBlocks[3], "children")
    /\ CarriesLink(SuppliedBlocks[3].children)
    /\ HasKey(DispatchedChildren(1)[1], "language")
    /\ DispatchedChildren(1)[1].language = "python"
    /\ HasKey(DispatchedChildren(1)[2], "checked")
    /\ ~CarriesLink(DispatchedChildren(1))

-----------------------------------------------------------------------------
(* C27, C28  from_text                                                     *)

Converted == ~IsNone(document)
Output == Val(document)

\* line i with its trailing whitespace removed, and its j-th character ("" past the end)
Trimmed(i) == rstrip(text[i])
Char(l, j) == IF j \in 1..Len(l) THEN SubSeq(l, j, j) ELSE ""

\* where line i stands with respect to the fences of the text
IsFenceLine(i) == Len(Trimmed(i)) >= 3 /\ SubSeq(Trimmed(i), 1, 3) = Fence
FencesBefore(i) == Cardinality({ j \in 1..(i - 1) : IsFenceLine(j) })
Opens(i) == IsFenceLine(i) /\ FencesBefore(i) % 2 = 0
Outside(i) == ~IsFenceLine(i) /\ FencesBefore(i) % 2 = 0
Blank(i) == Trimmed(i) = ""

\* the lines a block is due to, and the block due to line i
Emits(i) == Opens(i) \/ (Outside(i) /\ ~Blank(i))
BlockOf(i) == Output[Cardinality({ j \in 1..i : Emits(j) })]
ContentOf(block) == block.rich_text[1].text.content

\* the length of the run of characters of the set at the start of l
Run(l, chars) ==
    CHOOSE n \in 0..Len(l) :
        /\ \A j \in 1..n : Char(l, j) \in chars
        /\ Char(l, n + 1) \notin chars

\* the rules of the converter, in priority order
IsHeading(l) == Run(l, {"#"}) \in 1..3 /\ Char(l, Run(l, {"#"}) + 1) = " "
IsBullet(l) == Char(l, 1) \in {"-", "*"} /\ Char(l, 2) = " "
IsNumbered(l) ==
    LET d == Run(l, Digits) IN d >= 1 /\ Char(l, d + 1) = "." /\ Char(l, d + 2) = " "
IsQuote(l) == Char(l, 1) = ">" /\ Char(l, 2) = " "

ExpectedType(l) ==
    IF IsHeading(l) THEN "heading_" \o ToString(Run(l, {"#"}))
    ELSE IF IsBullet(l) THEN "bulleted_list_item"
    ELSE IF IsNumbered(l) THEN "numbered_list_item"
    ELSE IF IsQuote(l) THEN "quote"
    ELSE "paragraph"

\* the text of the line after the marker of its rule
ExpectedContent(l) ==
    LET skip == IF IsHeading(l) THEN Run(l, {"#"}) + 1
                ELSE IF IsBullet(l) THEN 2
                ELSE IF IsNumbered(l) THEN Run(l, Digits) + 2
                ELSE IF IsQuote(l) THEN 2
                ELSE 0
    IN SubSeq(l, skip + 1, Len(l))

\* C27: from_text returns one block for every non-blank line outside a fence (and
\* one per opened fence), in line order; the block of a line has the type of the
\* first rule that matches it (heading of level 1 to 3, bullet, numbered item
\* without its number, quote, otherwise paragraph) and the rest of the line as
\* content; a blank line gives no block and a line of four or more '#' a paragraph.
C27_LinesClassifiedInOrder ==
    Converted =>
        /\ Len(Output) = Cardinality({ i \in 1..Len(text) : Emits(i) })
        /\ \A i \in 1..Len(text) :
              (Outside(i) /\ ~Blank(i)) =>
                 /\ BlockOf(i).type = ExpectedType(Trimmed(i))
                 /\ ContentOf(BlockOf(i)) = ExpectedContent(Trimmed(i))
                 /\ DOMAIN BlockOf(i) = {"object", "type", "rich_text"}
                 /\ Run(Trimmed(i), {"#"}) >= 4 =>
                       (BlockOf(i).type = "paragraph" /\ ContentOf(BlockOf(i)) = Trimmed(i))

C27_Witness ==
    /\ Converted
    /\ text = << "#### Four", "  ", "12. Numbered" >>
    /\ Output = << paragraph("#### Four"), numbered_list_item("Numbered") >>

\* the line that closes the fence opened at line i, Len(text) + 1 if none does
ClosingLine(i) ==
    IF \E j \in (i + 1)..Len(text) : IsFenceLine(j)
    THEN CHOOSE j \in (i + 1)..Len(text) :
            IsFenceLine(j) /\ \A k \in (i + 1)..(j - 1) : ~IsFenceLine(k)
    ELSE Len(text) + 1

\* C28: every opened fence gives exactly one code block: its language is the tag
\* after the opening fence ("" if there is none), its content the lines up to the
\* closing fence or the end of the text, joined as they are, and these lines give
\* no other block; a fence still open at the end of the text gives the last block.
C28_FenceYieldsOneCodeBlock ==
    Converted =>
        /\ Cardinality({ k \in 1..Len(Output) : Output[k].type = "code" })
              = Cardinality({ i \in 1..Len(text) : Opens(i) })
        /\ \A i \in 1..Len(text) :
              Opens(i) =>
                 /\ BlockOf(i).type = "code"
                 /\ BlockOf(i).language = SubSeq(Trimmed(i), 4, Len(Trimmed(i)))
                 /\ Trimmed(i) = Fence => BlockOf(i).language = ""
                 /\ ContentOf(BlockOf(i))
                       = Flat(Join(SubSeq(text, i + 1, ClosingLine(i) - 1), "\n"))
                 /\ \A j \in (i + 1)..(ClosingLine(i) - 1) : ~Emits(j)
                 /\ ClosingLine(i) = Len(text) + 1 => BlockOf(i) = Last(Output)

C28_Witness ==
    /\ Converted
    /\ text = << "Plain text", Fence \o "python", "# Title" >>
    /\ Output = << paragraph("Plain text"), code("# Title", "python") >>

-----------------------------------------------------------------------------
(* C29  a failed update                                                    *)

\* an update whose last call (append or retrieve) raised after earlier calls went through
UpdateFailedMidway ==
    /\ IsUpdate
    /\ AdapterCallRaised
    /\ Len(calls) >= 2
    /\ Last(calls).op \in {"blocks.children.append", "pages.retrieve"}

\* the calls before the failed one went through, they are mutations issued once
\* each, in the order of the update, and the failed call is the last call issued
NothingUndone ==
    /\ \A i \in 1..(Len(calls) - 1) :
          calls[i].status = "returned" /\ calls[i].op \in MutationOps
    /\ \A i, j \in 1..Len(calls) : (i < j) => OpRank(calls[i].op) < OpRank(calls[j].op)
    /\ Last(calls).status = "raised"

WrappedAs(operation) ==
    /\ outcome.error.cls = "ToolExecutionError"
    /\ Len(Flat(outcome.error.message)) >= Len(operation \o " failed: ")
    /\ SubSeq(Flat(outcome.error.message), 1, Len(operation \o " failed: "))
          = operation \o " failed: "

\* C29 as claimed: when blocks.children.append raises after pages.update returned, or
\* pages.retrieve raises after the mutations returned, the invocation ends with the
\* tool error "Update page blocks failed: ..." / "Retrieve page failed: ...", and
\* the earlier calls stay as they were, no further call being issued.
C29_FailedUpdateAlwaysWrapped ==
    UpdateFailedMidway =>
        /\ outcome.kind = "raised"
        /\ WrappedAs(IF Last(calls).op = "pages.retrieve"
                     THEN "Retrieve page" ELSE "Update page blocks")
        /\ NothingUndone

\* C29 (amended): as claimed, except that an error raised by the call that is itself
\* a ToolExecutionError or a NotionConfigurationError ends the invocation as it is,
\* without the "<Operation> failed: " wrapping.
C29_FailedUpdateNotRolledBack ==
    UpdateFailedMidway =>
        /\ outcome.kind = "raised"
        /\ IF AdapterError.cls \in PropagatedClasses
           THEN outcome.error = AdapterError
           ELSE WrappedAs(IF Last(calls).op = "pages.retrieve"
                          THEN "Retrieve page" ELSE "Update page blocks")
        /\ NothingUndone

C29_Witness ==
    /\ UpdateFailedMidway
    /\ Ops = <<"pages.update", "blocks.children.append">>
    /\ calls[1].status = "returned"
    /\ calls[2].status = "raised"
    /\ Flat(outcome.error.message) = "Update page blocks failed: fail"

\* pages.retrieve fails after both mutations went through
C29_RetrieveFailed ==
    /\ UpdateFailedMidway
    /\ Ops = <<"pages.update", "blocks.children.append", "pages.retrieve">>
    /\ Flat(outcome.error.message) = "Retrieve page failed: timeout"

-----------------------------------------------------------------------------
(* C30  the title under a database parent                                  *)

DatabaseParent == IsCreate /\ TruthyStr(Val(request.parent).database_id)

\* the title the create summary reports between "with title '" and "'"
ReportedTitle == Flat(Between(Summary, " with title '", "'"))

\* C30: a create under a database parent with a title dispatches the caller's
\* properties exactly (the title is not written to them) and lists only their keys,
\* yet its summary reports "with title '<title>'"; a create summary reports
\* 'untitled' exactly when title is absent or empty, whatever the properties hold.
C30_DatabaseTitleOnlyInSummary ==
    CreateSummarized =>
        /\ (DatabaseParent /\ TruthyStr(request.title)) =>
              /\ ReportedTitle = Val(request.title)
              /\ CreateDispatched => DispatchedCreate.properties = CallerProperties
              /\ PropertiesFragment =
                    Flat(_format_property_keys(sorted(DOMAIN CallerProperties)))
        /\ (ReportedTitle = "untitled") = ~TruthyStr(request.title)
        /\ TruthyStr(request.title) => ReportedTitle = Val(request.title)

C30_Witness ==
    /\ CreateSummarized
    /\ CreateDispatched
    /\ DatabaseParent
    /\ DOMAIN DispatchedCreate.properties = {"Status"}
    /\ Flat(Summary) =
         "Created page under database db-1 with title 'Plan' (no blocks; properties: Status)."

\* 'untitled' although the properties hold a title
C30_UntitledWithTitleProperty ==
    /\ CreateSummarized
    /\ "title" \in DOMAIN CallerProperties
    /\ ReportedTitle = "untitled"

====
